---- MODULE Spec2Model ----
(***************************************************************************)
(* Model of litex_boards/targets/litex_acorn_baseboard_mini.py:            *)
(* the CRG (clock/reset generator), the BaseSoC constructor, which         *)
(* composes the peripherals, and main(), which builds, loads and flashes.  *)
(*                                                                         *)
(* One run of main() is one behaviour.  pc is the position of the run in   *)
(* main() / BaseSoC.__init__; every action is one section of the source.   *)
(* Frequencies are in Hz.  An IP address is the sequence of its dotted     *)
(* fields.  The calls into LiteX (Platform, SoCCore, the PHYs, Builder,    *)
(* the programmer) are collaborators: a call either returns or raises,     *)
(* and an exception is never caught by the source.                         *)
(***************************************************************************)
EXTENDS Integers, Sequences, FiniteSets, TLC

VARIABLES
    args,           \* the parsed command line and BaseSoC's keyword arguments
    pc,             \* position of the run in main() / BaseSoC.__init__
    failedAt,       \* the step whose call raised, or "none"
    platform_io,    \* resource names of the platform's own table
    extensions,     \* resource names the target added with add_extension
    requested,      \* resource names handed out by platform.request
    crg,            \* the CRG object (self.crg)
    soc_core,       \* what SoCCore.__init__ set on the SoC
    bridges,        \* the add_etherbone / add_ethernet calls made, in order
    soc,            \* main()'s variable soc: "unbound" or "bound"
    log,            \* the collaborator calls that returned, in order
    rst,            \* crg.rst, once the bitstream runs on the FPGA
    pll_locked      \* the PLL's lock output, once the bitstream runs

vars == <<args, pc, failedAt, platform_io, extensions, requested, crg,
          soc_core, bridges, soc, log, rst, pll_locked>>

(***************************************************************************)
(* Inputs                                                                  *)
(***************************************************************************)

\* --variant (line 154).
Variants == {"cle-215+", "cle-215", "cle-101"}

\* --sys-clk-freq (line 155): the default 156.25e6 and 100e6.
SysClkFreqs == {156250000, 100000000}

\* --eth-ip / --remote-ip (lines 158-159): the defaults and malformed texts
\* ("192.168.1" and "192.168.1.256").
EthIps == {<<192, 168, 1, 50>>, <<192, 168, 1>>}
RemoteIps == {<<192, 168, 1, 100>>, <<192, 168, 1, 256>>}

\* integrated_main_ram_size, a SoCCore keyword argument (parser.soc_argdict).
MainRamSizes == {0, 65536}

\* The table of sqrl_acorn.Platform: the groups the target requests, with or
\* without a transceiver group of its own.
PlatformTables == {{"clk200", "ddram", "user_led"},
                   {"clk200", "ddram", "user_led", "sfp"}}

ArgSpace ==
    [variant : Variants, sys_clk_freq : SysClkFreqs,
     with_ethernet : BOOLEAN, with_etherbone : BOOLEAN,
     eth_ip : EthIps, remote_ip : RemoteIps, eth_dynamic_ip : BOOLEAN,
     with_led_chaser : BOOLEAN, integrated_main_ram_size : MainRamSizes,
     build : BOOLEAN, load : BOOLEAN, flash : BOOLEAN]

(***************************************************************************)
(* CRG                                                                     *)
(***************************************************************************)

\* pll.register_clkin(clk200_se, 200e6)
ClkinFreq == 200000000

NoCrg == [created |-> FALSE, domains |-> {}, clkin |-> "none", clkin_freq |-> 0,
          clkouts |-> <<>>, false_paths |-> {}, idelay_clk |-> "none"]

\* The clock domains CRG.__init__ declares.
CrgDomains == {"sys", "sys4x", "sys4x_dqs", "idelay"}

PllClkoutsDqsUnshifted(f) ==
    << [cd |-> "sys",       freq |-> f,     phase |-> 0],
       [cd |-> "sys4x",     freq |-> 4 * f, phase |-> 0],
       [cd |-> "sys4x_dqs", freq |-> 4 * f, phase |-> 0] >>

\* The three pll.create_clkout calls.
PllClkouts(f) ==
    << [cd |-> "sys",       freq |-> f,     phase |-> 0],
       [cd |-> "sys4x",     freq |-> 4 * f, phase |-> 0],
       [cd |-> "sys4x_dqs", freq |-> 4 * f, phase |-> 90] >>

NewCrg(f) ==
    [created     |-> TRUE,
     domains     |-> CrgDomains,
     clkin       |-> "clk200_se",
     clkin_freq  |-> ClkinFreq,
     clkouts     |-> PllClkouts(f),
     false_paths |-> {<<"sys", "pll_clkin">>},
     idelay_clk  |-> "clk200_se"]

PllResetUnwired(r) == FALSE

\* self.comb += pll.reset.eq(self.rst)
PllReset(r) == r

\* The domains driven by an output of the PLL.
PllDomains == {crg.clkouts[i].cd : i \in DOMAIN crg.clkouts}

\* A domain's clock runs: a PLL output while the PLL is locked, the idelay
\* domain whenever its source, the buffered reference clock, is bound.
DomainActive(d) ==
    IF d \in PllDomains THEN pll_locked
    ELSE d = "idelay" /\ crg.idelay_clk = "clk200_se"

(***************************************************************************)
(* Control flow                                                            *)
(***************************************************************************)

OrderLedsFirst ==
    << "platform", "crg", "soccore", "leds", "ddr", "eth", "bridge",
       "return", "builder", "build", "load", "flash", "done" >>

\* The sections of BaseSoC.__init__ and main() in source order.
Order ==
    << "platform", "crg", "soccore", "ddr", "eth", "bridge", "leds",
       "return", "builder", "build", "load", "flash", "done" >>

Succ(p) == Order[(CHOOSE i \in DOMAIN Order : Order[i] = p) + 1]

ExceptionSwallowed(p) == Succ(p)

\* Where the run goes when the call of step p raises: nothing in the source
\* catches an exception, so main() ends.
ExceptionTarget(p) == "failed"

(***************************************************************************)
(* Peripheral selection                                                    *)
(***************************************************************************)

MemoryAlwaysSelected(ram_size) == TRUE

\* if not self.integrated_main_ram_size:
MemorySelected(ram_size) == ram_size = 0

\* if with_ethernet or with_etherbone:
NetworkSelected(with_ethernet, with_etherbone) == with_ethernet \/ with_etherbone

\* if with_led_chaser:
LedsSelected(with_led_chaser) == with_led_chaser

\* remote_ip is not an argument of add_etherbone.
NoIp == <<>>

EtherboneCall(a) ==
    [kind |-> "etherbone", ip_address |-> a.eth_ip, with_ethmac |-> a.with_ethernet,
     dynamic_ip |-> FALSE, remote_ip |-> NoIp]

EthernetCall(a) ==
    [kind |-> "ethernet", ip_address |-> a.eth_ip, with_ethmac |-> TRUE,
     dynamic_ip |-> a.eth_dynamic_ip, remote_ip |-> a.remote_ip]

BridgeCallsBothIfs(a) ==
    (IF a.with_etherbone THEN <<EtherboneCall(a)>> ELSE <<>>)
    \o (IF a.with_ethernet THEN <<EthernetCall(a)>> ELSE <<>>)

\* if with_etherbone: self.add_etherbone(...) elif with_ethernet: self.add_ethernet(...)
BridgeCalls(a) ==
    IF a.with_etherbone THEN <<EtherboneCall(a)>>
    ELSE IF a.with_ethernet THEN <<EthernetCall(a)>>
    ELSE <<>>

\* platform.request(name) returns the resource if the platform has it and it
\* was not handed out before, and raises otherwise.
Available(name) == name \in (platform_io \cup extensions) /\ name \notin requested

\* platform.add_extension(_eth_io): the target supplies the "sfp" group itself,
\* whatever the variant.
EthExtended(ext) == ext \cup {"sfp"}

\* The (peripheral, clock domain) pairs BaseSoC.__init__ checks against the
\* CRG's domains before it instantiates the peripheral: the DDR3, Ethernet and
\* Leds sections instantiate without any check.
DomainChecks == {}

\* Whether step p of the run calls a collaborator, which may raise.
StepCalls(p) ==
    CASE p \in {"platform", "crg", "soccore", "builder"} -> TRUE
      [] p = "ddr"    -> MemorySelected(soc_core.integrated_main_ram_size)
      [] p \in {"eth", "bridge"} -> NetworkSelected(args.with_ethernet, args.with_etherbone)
      [] p = "leds"   -> LedsSelected(args.with_led_chaser)
      [] p = "build"  -> args.build
      [] p = "load"   -> args.load
      [] p = "flash"  -> args.flash
      [] OTHER        -> FALSE

NoSocCore == [initialised |-> FALSE, clk_freq |-> 0, integrated_main_ram_size |-> 0]

(***************************************************************************)
(* Init: main() has parsed its arguments; nothing is constructed.          *)
(***************************************************************************)

Init ==
    /\ args \in ArgSpace
    /\ pc = "platform"
    /\ failedAt = "none"
    /\ platform_io = {}
    /\ extensions = {}
    /\ requested = {}
    /\ crg = NoCrg
    /\ soc_core = NoSocCore
    /\ bridges = <<>>
    /\ soc = "unbound"
    /\ log = <<>>
    /\ rst = FALSE
    /\ pll_locked = FALSE

\* The request of step p failed: the exception ends the run.
RequestRaises(p) ==
    /\ pc' = ExceptionTarget(p)
    /\ failedAt' = p
    /\ UNCHANGED <<args, platform_io, extensions, requested, crg, soc_core,
                   bridges, soc, log, rst, pll_locked>>

(***************************************************************************)
(* BaseSoC.__init__                                                        *)
(***************************************************************************)

\* platform = Platform(variant=variant); platform.add_extension(_serial_io, prepend=True)
NewPlatform ==
    /\ pc = "platform"
    /\ platform_io' \in PlatformTables
    /\ extensions' = {"serial"}
    /\ log' = Append(log, "Platform")
    /\ pc' = Succ("platform")
    /\ UNCHANGED <<args, failedAt, requested, crg, soc_core, bridges, soc, rst, pll_locked>>

\* self.crg = CRG(platform, sys_clk_freq)
NewCRG ==
    /\ pc = "crg"
    /\ IF Available("clk200")
       THEN /\ requested' = requested \cup {"clk200"}
            /\ crg' = NewCrg(args.sys_clk_freq)
            /\ log' = Append(log, "CRG")
            /\ pc' = Succ("crg")
            /\ UNCHANGED <<args, failedAt, platform_io, extensions, soc_core,
                           bridges, soc, rst, pll_locked>>
       ELSE RequestRaises("crg")

\* SoCCore.__init__(self, platform, sys_clk_freq, ident=..., **kwargs)
InitSoCCore ==
    /\ pc = "soccore"
    /\ soc_core' = [initialised |-> TRUE, clk_freq |-> args.sys_clk_freq,
                    integrated_main_ram_size |-> args.integrated_main_ram_size]
    /\ log' = Append(log, "SoCCore")
    /\ pc' = Succ("soccore")
    /\ UNCHANGED <<args, failedAt, platform_io, extensions, requested, crg,
                   bridges, soc, rst, pll_locked>>

\* DDR3 SDRAM: self.ddrphy = s7ddrphy.A7DDRPHY(platform.request("ddram"), ...); self.add_sdram(...)
AddDDR ==
    /\ pc = "ddr"
    /\ IF ~MemorySelected(soc_core.integrated_main_ram_size)
       THEN /\ pc' = Succ("ddr")
            /\ UNCHANGED <<args, failedAt, platform_io, extensions, requested, crg,
                           soc_core, bridges, soc, log, rst, pll_locked>>
       ELSE IF Available("ddram")
       THEN /\ requested' = requested \cup {"ddram"}
            /\ log' = log \o <<"A7DDRPHY", "add_sdram">>
            /\ pc' = Succ("ddr")
            /\ UNCHANGED <<args, failedAt, platform_io, extensions, crg, soc_core,
                           bridges, soc, rst, pll_locked>>
       ELSE RequestRaises("ddr")

\* Ethernet / Etherbone: platform.add_extension(_eth_io); qpll = QPLL(ClockSignal("sys"), ...);
\* self.ethphy = A7_1000BASEX(..., data_pads = self.platform.request("sfp"), ...)
AddEthPhy ==
    /\ pc = "eth"
    /\ IF ~NetworkSelected(args.with_ethernet, args.with_etherbone)
       THEN /\ pc' = Succ("eth")
            /\ UNCHANGED <<args, failedAt, platform_io, extensions, requested, crg,
                           soc_core, bridges, soc, log, rst, pll_locked>>
       ELSE IF "sfp" \in (platform_io \cup EthExtended(extensions)) /\ "sfp" \notin requested
       THEN /\ extensions' = EthExtended(extensions)
            /\ requested' = requested \cup {"sfp"}
            /\ log' = log \o <<"QPLL", "A7_1000BASEX">>
            /\ pc' = Succ("eth")
            /\ UNCHANGED <<args, failedAt, platform_io, crg, soc_core, bridges, soc,
                           rst, pll_locked>>
       ELSE RequestRaises("eth")

\* if with_etherbone: self.add_etherbone(...) elif with_ethernet: self.add_ethernet(...)
AddBridge ==
    /\ pc = "bridge"
    /\ IF ~NetworkSelected(args.with_ethernet, args.with_etherbone)
       THEN /\ pc' = Succ("bridge")
            /\ UNCHANGED <<args, failedAt, platform_io, extensions, requested, crg,
                           soc_core, bridges, soc, log, rst, pll_locked>>
       ELSE /\ bridges' = bridges \o BridgeCalls(args)
            /\ log' = log \o [i \in DOMAIN BridgeCalls(args) |->
                                 IF BridgeCalls(args)[i].kind = "etherbone"
                                 THEN "add_etherbone" ELSE "add_ethernet"]
            /\ pc' = Succ("bridge")
            /\ UNCHANGED <<args, failedAt, platform_io, extensions, requested, crg,
                           soc_core, soc, rst, pll_locked>>

\* Leds: self.leds = LedChaser(pads = platform.request_all("user_led"), ...)
AddLeds ==
    /\ pc = "leds"
    /\ IF ~LedsSelected(args.with_led_chaser)
       THEN /\ pc' = Succ("leds")
            /\ UNCHANGED <<args, failedAt, platform_io, extensions, requested, crg,
                           soc_core, bridges, soc, log, rst, pll_locked>>
       ELSE /\ requested' = requested \cup {"user_led"}
            /\ log' = Append(log, "LedChaser")
            /\ pc' = Succ("leds")
            /\ UNCHANGED <<args, failedAt, platform_io, extensions, crg, soc_core,
                           bridges, soc, rst, pll_locked>>

(***************************************************************************)
(* main()                                                                  *)
(***************************************************************************)

\* soc = BaseSoC(...): the constructor returned.
ReturnSoC ==
    /\ pc = "return"
    /\ soc' = "bound"
    /\ pc' = Succ("return")
    /\ UNCHANGED <<args, failedAt, platform_io, extensions, requested, crg,
                   soc_core, bridges, log, rst, pll_locked>>

\* builder = Builder(soc, **parser.builder_argdict)
NewBuilder ==
    /\ pc = "builder"
    /\ log' = Append(log, "Builder")
    /\ pc' = Succ("builder")
    /\ UNCHANGED <<args, failedAt, platform_io, extensions, requested, crg,
                   soc_core, bridges, soc, rst, pll_locked>>

\* if args.build: builder.build(**parser.toolchain_argdict)
Build ==
    /\ pc = "build"
    /\ log' = IF args.build THEN Append(log, "build") ELSE log
    /\ pc' = Succ("build")
    /\ UNCHANGED <<args, failedAt, platform_io, extensions, requested, crg,
                   soc_core, bridges, soc, rst, pll_locked>>

\* if args.load: prog.load_bitstream(builder.get_bitstream_filename(mode="sram"))
Load ==
    /\ pc = "load"
    /\ log' = IF args.load THEN Append(log, "load_bitstream") ELSE log
    /\ pc' = Succ("load")
    /\ UNCHANGED <<args, failedAt, platform_io, extensions, requested, crg,
                   soc_core, bridges, soc, rst, pll_locked>>

\* if args.flash: prog.flash(0, builder.get_bitstream_filename(mode="flash"))
Flash ==
    /\ pc = "flash"
    /\ log' = IF args.flash THEN Append(log, "flash") ELSE log
    /\ pc' = Succ("flash")
    /\ UNCHANGED <<args, failedAt, platform_io, extensions, requested, crg,
                   soc_core, bridges, soc, rst, pll_locked>>

\* The collaborator called at the current step raises.  No statement of the
\* source catches it: the constructor and main() are left at once.
StepRaises ==
    /\ pc \in {"platform", "crg", "soccore", "ddr", "eth", "bridge", "leds",
               "builder", "build", "load", "flash"}
    /\ StepCalls(pc)
    /\ pc' = ExceptionTarget(pc)
    /\ failedAt' = pc
    /\ UNCHANGED <<args, platform_io, extensions, requested, crg, soc_core,
                   bridges, soc, log, rst, pll_locked>>

(***************************************************************************)
(* The design on the FPGA, once a bitstream was loaded or flashed          *)
(***************************************************************************)

Called(f) == \E i \in DOMAIN log : log[i] = f

Running == pc = "done" /\ (Called("load_bitstream") \/ Called("flash"))

\* crg.rst is asserted; pll.reset follows it combinationally, and a PLL in
\* reset drops its lock.
AssertRst ==
    /\ Running
    /\ ~rst
    /\ rst' = TRUE
    /\ pll_locked' = IF PllReset(TRUE) THEN FALSE ELSE pll_locked
    /\ UNCHANGED <<args, pc, failedAt, platform_io, extensions, requested, crg,
                   soc_core, bridges, soc, log>>

\* crg.rst is cleared.
ClearRst ==
    /\ Running
    /\ rst
    /\ rst' = FALSE
    /\ UNCHANGED <<args, pc, failedAt, platform_io, extensions, requested, crg,
                   soc_core, bridges, soc, log, pll_locked>>

\* The PLL locks onto its input clock while it is out of reset.
PllLock ==
    /\ Running
    /\ crg.clkin = "clk200_se"
    /\ ~PllReset(rst)
    /\ ~pll_locked
    /\ pll_locked' = TRUE
    /\ UNCHANGED <<args, pc, failedAt, platform_io, extensions, requested, crg,
                   soc_core, bridges, soc, log, rst>>

Next ==
    \/ NewPlatform
    \/ NewCRG
    \/ InitSoCCore
    \/ AddDDR
    \/ AddEthPhy
    \/ AddBridge
    \/ AddLeds
    \/ ReturnSoC
    \/ NewBuilder
    \/ Build
    \/ Load
    \/ Flash
    \/ StepRaises
    \/ AssertRst
    \/ ClearRst
    \/ PllLock

Spec == Init /\ [][Next]_vars

(***************************************************************************)
(* Vocabulary of the properties                                            *)
(***************************************************************************)

Count(f) == Cardinality({i \in DOMAIN log : log[i] = f})

WellFormed(ip) == Len(ip) = 4 /\ \A i \in DOMAIN ip : ip[i] \in 0..255

NetRequested == args.with_ethernet \/ args.with_etherbone

MemoryCalls == {"A7DDRPHY", "add_sdram"}
NetworkCalls == {"QPLL", "A7_1000BASEX", "add_etherbone", "add_ethernet"}
StatusCalls == {"LedChaser"}
PeripheralCalls == MemoryCalls \cup NetworkCalls \cup StatusCalls

\* The clock domains a peripheral needs.
RequiredDomains(f) ==
    IF f \in MemoryCalls THEN {"sys", "sys4x", "sys4x_dqs", "idelay"} ELSE {"sys"}

\* The peripheral kind a call belongs to, in the order memory, network, status.
Rank(f) ==
    IF f \in MemoryCalls THEN 1 ELSE IF f \in NetworkCalls THEN 2 ELSE 3

ConstructionSteps == {"platform", "crg", "soccore", "ddr", "eth", "bridge", "leds"}

EthernetWired == \E i \in DOMAIN bridges : bridges[i].with_ethmac
EtherboneWired == \E i \in DOMAIN bridges : bridges[i].kind = "etherbone"

Stage ==
    IF Called("build") THEN "Built"
    ELSE IF pc = "failed" THEN "Failed"
    ELSE IF soc = "bound" THEN "Assembled"
    ELSE IF soc_core.initialised THEN "PeripheralsSelected"
    ELSE IF crg.created THEN "ClocksDerived"
    ELSE "Unconfigured"

StageSuccessors(s) ==
    CASE s = "Unconfigured"        -> {"ClocksDerived", "Failed"}
      [] s = "ClocksDerived"       -> {"PeripheralsSelected", "Failed"}
      [] s = "PeripheralsSelected" -> {"Assembled", "Failed"}
      [] s = "Assembled"           -> {"Built", "Failed"}
      [] OTHER                     -> {}

(***************************************************************************)
(* C1: a load or a flash is performed only after a build completed in the  *)
(* same run.  main() tests args.load and args.flash alone, so the          *)
(* statement is violated by a run with --load and without --build.         *)
(***************************************************************************)
C1_LoadFlashOnlyAfterBuild ==
    (Called("load_bitstream") \/ Called("flash")) => Called("build")

(***************************************************************************)
(* C2: every clock domain a peripheral requires is verified to exist in    *)
(* the CRG's domain set before the peripheral is instantiated.  The        *)
(* constructor makes no such check: DomainChecks, the checks it performs   *)
(* before an instantiation, is empty.                                      *)
(***************************************************************************)
C2_DomainsVerifiedBeforeInstantiation ==
    \A i \in DOMAIN log :
        log[i] \in PeripheralCalls =>
            \A d \in RequiredDomains(log[i]) : <<log[i], d>> \in DomainChecks

(***************************************************************************)
(* C3: with a network mode requested on a platform whose table has no      *)
(* transceiver group, construction fails before the CRG is created.  The   *)
(* target adds the group itself and goes on, so the CRG exists.            *)
(***************************************************************************)
C3_NoClockWorkWithoutTransceiver ==
    (NetRequested /\ pc # "platform" /\ "sfp" \notin platform_io) => ~crg.created

(***************************************************************************)
(* C4: the run moves Unconfigured -> ClocksDerived -> PeripheralsSelected  *)
(* -> Assembled -> Built, each stage in turn, or to Failed; a call that    *)
(* raises ends the run; after a failure of construction main() holds no    *)
(* SoC and has made no Builder, build, load or flash call; and a SoC that  *)
(* main() holds has every selected peripheral and no other.                *)
(***************************************************************************)
C4_AllOrNothing ==
    /\ [](failedAt # "none" => pc = "failed")
    /\ []((pc = "failed" /\ failedAt \in ConstructionSteps) =>
            /\ soc = "unbound"
            /\ ~Called("Builder") /\ ~Called("build")
            /\ ~Called("load_bitstream") /\ ~Called("flash"))
    /\ [](soc = "bound" =>
            /\ crg.created /\ soc_core.initialised
            /\ Called("add_sdram") <=> (args.integrated_main_ram_size = 0)
            /\ (Called("add_etherbone") \/ Called("add_ethernet")) <=> NetRequested
            /\ Called("LedChaser") <=> args.with_led_chaser)
    /\ [][Stage' = Stage \/ Stage' \in StageSuccessors(Stage)]_vars

C4_Witness ==
    /\ pc = "failed" /\ failedAt = "bridge"
    /\ Called("add_sdram") /\ Called("A7_1000BASEX")
    /\ soc = "unbound"

(***************************************************************************)
(* C5: the selected peripherals are instantiated in the order memory,      *)
(* network, status indicator, all after the CRG created its clock domains. *)
(***************************************************************************)
C5_InstantiationOrder ==
    /\ \A i, j \in DOMAIN log :
          (i < j /\ log[i] \in PeripheralCalls /\ log[j] \in PeripheralCalls)
              => Rank(log[i]) <= Rank(log[j])
    /\ (\E i \in DOMAIN log : log[i] \in PeripheralCalls) =>
          (Called("CRG") /\ crg.domains = {"sys", "sys4x", "sys4x_dqs", "idelay"})
    /\ (Called("A7_1000BASEX") /\ args.integrated_main_ram_size = 0) => Called("add_sdram")
    /\ (Called("LedChaser") /\ args.integrated_main_ram_size = 0) => Called("add_sdram")
    /\ (Called("LedChaser") /\ NetRequested) =>
          (Called("add_etherbone") \/ Called("add_ethernet"))

C5_Witness ==
    Called("add_sdram") /\ Called("add_etherbone") /\ Called("LedChaser")

C7_ExactPeripheralSet ==
    /\ (\E i \in DOMAIN log : log[i] \in MemoryCalls) => args.integrated_main_ram_size = 0
    /\ (\E i \in DOMAIN log : log[i] \in NetworkCalls) => NetRequested
    /\ Called("LedChaser") => args.with_led_chaser
    /\ soc = "bound" =>
          /\ (Called("A7DDRPHY") /\ Called("add_sdram")) <=> (args.integrated_main_ram_size = 0)
          /\ (Called("QPLL") /\ Called("A7_1000BASEX")) <=> NetRequested
          /\ Called("LedChaser") <=> args.with_led_chaser

C7_Witness ==
    /\ soc = "bound"
    /\ args.integrated_main_ram_size # 0 /\ ~Called("A7DDRPHY")
    /\ args.with_ethernet /\ Called("A7_1000BASEX")
    /\ ~args.with_led_chaser /\ ~Called("LedChaser")

(***************************************************************************)
(* C8: the CRG asks the PLL, fed with the 200 MHz reference, for sys at    *)
(* exactly sys_clk_freq and phase 0, and for two more outputs at exactly   *)
(* 4 * sys_clk_freq, sys4x at 0 and sys4x_dqs at 90 degrees; no two        *)
(* domains share a name; idelay is no PLL output but the buffered          *)
(* reference clock.                                                        *)
(***************************************************************************)
C8_ClockPlan ==
    crg.created =>
        /\ crg.clkin_freq = 200000000
        /\ Len(crg.clkouts) = 3
        /\ \E i \in DOMAIN crg.clkouts :
              crg.clkouts[i] = [cd |-> "sys", freq |-> args.sys_clk_freq, phase |-> 0]
        /\ \E i \in DOMAIN crg.clkouts :
              crg.clkouts[i] = [cd |-> "sys4x", freq |-> 4 * args.sys_clk_freq, phase |-> 0]
        /\ \E i \in DOMAIN crg.clkouts :
              crg.clkouts[i] = [cd |-> "sys4x_dqs", freq |-> 4 * args.sys_clk_freq, phase |-> 90]
        /\ \A i, j \in DOMAIN crg.clkouts :
              crg.clkouts[i].cd = crg.clkouts[j].cd => i = j
        /\ crg.domains = PllDomains \cup {"idelay"}
        /\ "idelay" \notin PllDomains
        /\ crg.idelay_clk = crg.clkin /\ crg.clkin = "clk200_se"

C8_Witness ==
    /\ crg.created /\ args.sys_clk_freq = 156250000
    /\ args.integrated_main_ram_size = 0 /\ Called("add_sdram")
    /\ \E i \in DOMAIN crg.clkouts :
          crg.clkouts[i] = [cd |-> "sys4x_dqs", freq |-> 625000000, phase |-> 90]

(***************************************************************************)
(* C9: while crg.rst is asserted the PLL is in reset and none of the       *)
(* domains derived from it (sys, sys4x, sys4x_dqs) is active.              *)
(***************************************************************************)
C9_ResetDisablesDomains ==
    rst => /\ PllReset(rst)
           /\ \A d \in {"sys", "sys4x", "sys4x_dqs"} : ~DomainActive(d)

C9_Witness ==
    /\ Running /\ rst /\ ~pll_locked
    /\ {"sys", "sys4x", "sys4x_dqs"} \subseteq PllDomains
    /\ DomainActive("idelay")

(***************************************************************************)
(* C10: with a network mode selected and a malformed eth_ip or remote_ip,  *)
(* construction fails before the CRG, the SoC core or any peripheral is    *)
(* instantiated.  The constructor never inspects the addresses: the CRG    *)
(* and the memory are built before the address reaches the bridge.         *)
(***************************************************************************)
C10_MalformedAddressFailsBeforeAssembly ==
    (NetRequested /\ (~WellFormed(args.eth_ip) \/ ~WellFormed(args.remote_ip))) =>
        /\ ~crg.created
        /\ ~soc_core.initialised
        /\ \A i \in DOMAIN log : log[i] \notin PeripheralCalls

====
